---- MODULE Spec2Model ----
(***************************************************************************)
(* Replicated, nodelet-partitioned matrix of src/main.cc.                   *)
(*                                                                          *)
(* A Matrix_t is a control block (nrows_, nrows_per_nodelet_, rows_) that   *)
(* operator new replicates on every nodelet, plus one block of Row_t        *)
(* containers per nodelet.  Threads live on a nodelet: a read of remote     *)
(* memory migrates the reading thread to the owner of the address, a read   *)
(* through the replicated this pointer reads the copy of the nodelet the    *)
(* thread is on.                                                            *)
(***************************************************************************)
EXTENDS Integers, Sequences, FiniteSets, TLC

\* Largest row count handed to Matrix_t::create.
MaxN == 3
\* Largest NODELETS().
MaxP == 3

VARIABLES
    N,       \* nrows handed to create (main.cc:140)
    P,       \* NODELETS()
    honor,   \* TRUE: the runtime honors cilk_migrate_hint
    anyIdx,  \* TRUE: the driver also hands row indices outside [0,N) to build
    pc,      \* position of the main thread
    cur,     \* index in MatSeq of the matrix being created
    k,       \* loop index i of the constructor's loops
    mloc,    \* nodelet the main thread is on
    mhome,   \* nodelet the main thread goes back to after a hinted spawn
    mtrail,  \* nodelets the main thread visited since the last operator new
    ctl,     \* ctl[m][p]: the copy of m's control block on nodelet p
    store,   \* store[m].cell[p][s]: row container s of m's block on nodelet p
    at,      \* at[i]: the allocateRows(i) task of the running constructor
    bt,      \* bt[s]: the build task spawned at site s of main
    site,    \* spawn site of main the main thread is at
    mid,     \* TRUE: main joined between its two spawns
    fault,   \* TRUE: some thread dereferenced a pointer outside every allocation
    freed    \* matrices whose replicated control block operator delete released

vars == <<N, P, honor, anyIdx, pc, cur, k, mloc, mhome, mtrail, ctl, store,
          at, bt, site, mid, fault, freed>>

\* The two matrices main creates, in creation order.
MatSeq == <<"A", "B">>
Mats == {"A", "B"}
\* The two cilk_spawn build sites of main, in program order.
Sites == {1, 2}

Nodelets == 0 .. (P - 1)

----------------------------------------------------------------------------
\* C++ integer division and remainder (truncation toward zero).
CDiv(a, b) == IF a >= 0 THEN a \div b ELSE -((-a) \div b)
CMod(a, b) == a - b * CDiv(a, b)

n_map_const0(i) == 0
n_map_div(i) == i \div P
n_map(i) == CMod(i, P)

r_map_const0(i) == 0
r_map(i) == CDiv(i, P)

\* nrows_per_nodelet_ as the constructor computes it.
RowsPerNodelet_floor(n) == r_map(n)
RowsPerNodelet(n) == r_map(n) + n_map(n)

----------------------------------------------------------------------------
\* Addresses.  kind "tbl": entry p of m's base-pointer table (on nodelet p);
\* kind "row": container s of m's block on nodelet p; "null" and "wild" point
\* into no allocation.
TblPtr(m, p) == [kind |-> "tbl", m |-> m, p |-> p, s |-> 0]
RowPtr(m, p, s) == [kind |-> "row", m |-> m, p |-> p, s |-> s]
NullPtr == [kind |-> "null", m |-> "", p |-> 0, s |-> 0]
WildPtr == [kind |-> "wild", m |-> "", p |-> 0, s |-> 0]

\* A control block and what an uninitialized one may hold.
Block(n, per, rows) == [nrows |-> n, per |-> per, rows |-> rows]
Unallocated == [nrows |-> -1, per |-> -1, rows |-> NullPtr]
Uninit == {Block(0, 0, NullPtr), Block(1, 1, WildPtr)}

\* A row container: raw memory until Row_t() is constructed in it.
RawRow == [built |-> FALSE, ents |-> <<>>]
EmptyRow == [built |-> TRUE, ents |-> <<>>]

\* The entries build pushes for an even and for an odd row index.
PatternEven == << <<0, 1>>, <<3, 1>>, <<5, 1>>, <<7, 1>>,
                  <<12, 1>>, <<14, 1>>, <<27, 1>>, <<31, 1>> >>
PatternOdd == << <<1, 1>>, <<7, 1>>, <<10, 1>>, <<14, 1>>,
                 <<18, 1>>, <<27, 1>>, <<28, 1>> >>
TmpRow(row_idx) == IF CMod(row_idx, 2) = 0 THEN PatternEven ELSE PatternOdd

\* mw_malloc2d(NODELETS(), per * sizeof(Row_t)): per raw containers per nodelet.
NoStore == [per |-> -1, cell |-> << >>]
Malloc2d(per) ==
    [per |-> per, cell |-> [p \in Nodelets |-> [s \in 0 .. (per - 1) |-> RawRow]]]

\* The table entry rows_ + i of a table base pointer, and the nodelet it is on.
TblAdd_base(rows, i) == rows
TblAdd(rows, i) ==
    IF rows.kind = "tbl" THEN [rows EXCEPT !.p = rows.p + i] ELSE WildPtr
InTable(q) == q.kind = "tbl" /\ q.p \in Nodelets /\ store[q.m].per >= 0
\* rows_[i] + r: the table entry read, then offset inside the block.
RowAt(rows, i, r) ==
    LET q == TblAdd(rows, i)
    IN  IF InTable(q) THEN RowPtr(q.m, q.p, r) ELSE WildPtr
InStore(q) ==
    /\ q.kind = "row"
    /\ q.p \in Nodelets
    /\ q.s \in 0 .. (store[q.m].per - 1)

\* The nodelet that owns an address; none for one outside every allocation.
Owned(q) == InTable(q) \/ InStore(q)
Owner(q) == q.p

\* this->field as read by a thread on nodelet p.
Field(m, p) == ctl[m][p]

NoAlloc == [st |-> "idle", loc |-> 0, row |-> 0, moves |-> 0]
NoBuild == [st |-> "idle", m |-> "A", idx |-> 0, loc |-> 0, start |-> 0,
            it |-> 0, ptr |-> NullPtr, hint |-> NullPtr, prior |-> <<>>,
            moves |-> 0]

----------------------------------------------------------------------------
InitOf(ns, ps, idxs, origins) ==
    /\ N \in ns
    /\ P \in ps
    /\ honor \in BOOLEAN
    /\ anyIdx \in idxs
    /\ pc = "new"
    /\ cur = 1
    /\ k = 0
    /\ mloc \in IF origins THEN Nodelets ELSE {0}
    /\ mhome = mloc
    /\ mtrail = <<mloc>>
    /\ ctl = [m \in Mats |-> [p \in Nodelets |-> Unallocated]]
    /\ store = [m \in Mats |-> NoStore]
    /\ at = [i \in Nodelets |-> NoAlloc]
    /\ bt = [s \in Sites |-> NoBuild]
    /\ site = 1
    /\ mid = FALSE
    /\ fault = FALSE
    /\ freed = {}
InitWith(idxs, origins) == InitOf(1 .. MaxN, 1 .. MaxP, idxs, origins)

\* main: the thread starts on nodelet 0 and hands build row indices in [0,N).
Init == InitWith({FALSE}, FALSE)

----------------------------------------------------------------------------
\* A thread on nodelet loc reads address q: it migrates to q's owner.
ReadAt(loc, q) == IF Owned(q) THEN Owner(q) ELSE loc
Hop(loc, to) == IF to = loc THEN 0 ELSE 1
Visit(trail, to) == IF to = trail[Len(trail)] THEN trail ELSE Append(trail, to)

Mat == MatSeq[cur]

\* operator new: mw_mallocrepl hands out one uninitialized copy per nodelet.
New ==
    /\ pc = "new"
    /\ \E g \in [Nodelets -> Uninit] : ctl' = [ctl EXCEPT ![Mat] = g]
    /\ at' = [i \in Nodelets |-> NoAlloc]
    /\ mtrail' = <<mloc>>
    /\ pc' = "ctor"
    /\ UNCHANGED <<N, P, honor, anyIdx, freed, cur, k, mloc, mhome, store, bt, site,
                   mid, fault>>

\* for (i = 1; i < NODELETS(); ++i)
\*     memcpy(mw_get_nth(this, i), mw_get_nth(this, 0), sizeof(*this));
\* The read of copy 0 takes the thread to nodelet 0; the writes are remote.
ReplFirst_skip == 1 + 1
ReplFirst == 1
ReplSource_last == P - 1
ReplSource == 0

\* The constructor up to the replication loop: the three fields are written
\* through this, that is into the copy of the nodelet the thread is on.
Ctor ==
    /\ pc = "ctor"
    /\ LET per == RowsPerNodelet(N)
       IN  /\ ctl' = [ctl EXCEPT ![Mat][mloc] = Block(N, per, TblPtr(Mat, 0))]
           /\ store' = [store EXCEPT ![Mat] = Malloc2d(per)]
    /\ k' = IF ReplFirst < P THEN ReplFirst ELSE 0
    /\ pc' = IF ReplFirst < P THEN "repl" ELSE "hint"
    /\ UNCHANGED <<N, P, honor, anyIdx, freed, cur, mloc, mhome, mtrail, at, bt, site,
                   mid, fault>>

Repl ==
    /\ pc = "repl"
    /\ ctl' = [ctl EXCEPT ![Mat][k] = ctl[Mat][ReplSource]]
    /\ mloc' = ReplSource
    /\ mtrail' = Visit(mtrail, ReplSource)
    /\ k' = IF k + 1 < P THEN k + 1 ELSE 0
    /\ pc' = IF k + 1 < P THEN "repl" ELSE "hint"
    /\ UNCHANGED <<N, P, honor, anyIdx, freed, cur, mhome, store, at, bt, site, mid,
                   fault>>

\* cilk_migrate_hint(rows_ + i): rows_ is read from the local copy; an honored
\* hint takes the thread to the owner of the address before it spawns.
\* The owner of an address outside every allocation is whatever the runtime
\* makes of its bits.
Hinted_ignored(loc, q) == {loc}
Hinted(loc, q) ==
    IF ~honor THEN {loc} ELSE IF Owned(q) THEN {Owner(q)} ELSE Nodelets
HintAlloc ==
    /\ pc = "hint"
    /\ \E to \in Hinted(mloc, TblAdd(Field(Mat, mloc).rows, k)) :
           /\ mloc' = to
           /\ mtrail' = Visit(mtrail, to)
    /\ pc' = "spawn"
    /\ UNCHANGED <<N, P, honor, anyIdx, freed, cur, k, mhome, ctl, store, at, bt, site,
                   mid, fault>>

\* cilk_spawn allocateRows(i): the child starts where its parent is; the parent
\* goes back to the nodelet of its frame.
SpawnAlloc ==
    /\ pc = "spawn"
    /\ at' = [at EXCEPT ![k] = [st |-> "run", loc |-> mloc, row |-> 0, moves |-> 0]]
    /\ mloc' = mhome
    /\ mtrail' = Visit(mtrail, mhome)
    /\ k' = k + 1
    /\ pc' = IF k + 1 < P THEN "hint" ELSE "sync"
    /\ UNCHANGED <<N, P, honor, anyIdx, freed, cur, mhome, ctl, store, bt, site, mid,
                   fault>>

\* One iteration of allocateRows(i): the loop test reads nrows_per_nodelet_,
\* the body reads rows_ and rows_[i] and constructs Row_t() at rows_[i] + row_idx.
AllocStep(i) ==
    /\ at[i].st = "run"
    /\ LET t == at[i]
           f == Field(Mat, t.loc)
           q == RowAt(f.rows, i, t.row)
           to == ReadAt(t.loc, TblAdd(f.rows, i))
       IN  IF t.row < f.per
           THEN /\ at' = [at EXCEPT ![i] = [t EXCEPT !.row = t.row + 1, !.loc = to,
                                            !.moves = t.moves + Hop(t.loc, to)]]
                /\ IF InStore(q)
                   THEN /\ store' = [store EXCEPT ![q.m].cell[q.p][q.s] = EmptyRow]
                        /\ fault' = fault
                   ELSE /\ store' = store
                        /\ fault' = TRUE
           ELSE /\ at' = [at EXCEPT ![i].st = "done"]
                /\ UNCHANGED <<store, fault>>
    /\ UNCHANGED <<N, P, honor, anyIdx, freed, pc, cur, k, mloc, mhome, mtrail, ctl, bt,
                   site, mid>>

\* cilk_sync at the end of the constructor; create returns.
AllocJoined_nowait == TRUE
AllocJoined == \A i \in Nodelets : at[i].st = "done"
SyncCreate ==
    /\ pc = "sync"
    /\ AllocJoined
    /\ cur' = cur + 1
    /\ pc' = IF cur < Len(MatSeq) THEN "new" ELSE "bhint"
    /\ UNCHANGED <<N, P, honor, anyIdx, freed, k, mloc, mhome, mtrail, ctl, store, at, bt,
                   site, mid, fault>>

----------------------------------------------------------------------------
\* Row indices the driver hands to nodelet_addr and build.
Indices == IF anyIdx THEN (-1) .. N ELSE 0 .. (N - 1)

\* Matrix_t::nodelet_addr(i): rows_ + n_map(i), no dereference.
nodelet_addr_slot(rows, i) == TblAdd(rows, r_map(i))
nodelet_addr(rows, i) == TblAdd(rows, n_map(i))

\* rowPtr = rows_[n_map(row_idx)] + r_map(row_idx)
rowPtr_first(rows, loc, row_idx) == RowAt(rows, n_map(row_idx), 0)
rowPtr_local(rows, loc, row_idx) == RowAt(rows, loc, r_map(row_idx))
rowPtr(rows, loc, row_idx) == RowAt(rows, n_map(row_idx), r_map(row_idx))

Running(s) == bt[s].st \in {"hinted", "start", "append"}

\* cilk_migrate_hint(M->nodelet_addr(row_idx)) at spawn site `site` of main.
\* The driver never has two unjoined builds of the same row of one matrix.
HintBuild ==
    /\ pc = "bhint"
    /\ \E m \in Mats, idx \in Indices :
           /\ \A s \in Sites : Running(s) => <<bt[s].m, bt[s].idx>> # <<m, idx>>
           /\ LET q == nodelet_addr(Field(m, mloc).rows, idx)
              IN  \E to \in Hinted(mloc, q) :
                      /\ mloc' = to
                      /\ mtrail' = Visit(mtrail, to)
                      /\ bt' = [bt EXCEPT ![site] =
                                  [NoBuild EXCEPT !.st = "hinted", !.m = m,
                                                  !.idx = idx, !.hint = q]]
    /\ pc' = "bspawn"
    /\ UNCHANGED <<N, P, honor, anyIdx, freed, cur, k, mhome, ctl, store, at, site, mid,
                   fault>>

\* cilk_spawn M->build(row_idx): the child starts where its parent is.
SpawnBuild ==
    /\ pc = "bspawn"
    /\ bt' = [bt EXCEPT ![site].st = "start", ![site].loc = mloc,
                        ![site].start = mloc]
    /\ mloc' = mhome
    /\ mtrail' = Visit(mtrail, mhome)
    /\ site' = site + 1
    /\ pc' = IF site + 1 \in Sites THEN "bhint" ELSE "bsync"
    /\ UNCHANGED <<N, P, honor, anyIdx, freed, cur, k, mhome, ctl, store, at, mid, fault>>

\* A join the driver may put between its two spawns.
MidSync ==
    /\ pc = "bhint"
    /\ site = 2
    /\ ~mid
    /\ bt[1].st = "done"
    /\ mid' = TRUE
    /\ UNCHANGED <<N, P, honor, anyIdx, freed, pc, cur, k, mloc, mhome, mtrail, ctl,
                   store, at, bt, site, fault>>

Ents(q) == IF InStore(q) THEN store[q.m].cell[q.p][q.s].ents ELSE << >>
Built(q) == InStore(q) /\ store[q.m].cell[q.p][q.s].built

\* build up to its loop: tmpRow is filled on the nodelet the task starts on,
\* rows_ is read from the local copy, the read of rows_[n_map(row_idx)] takes
\* the task to that nodelet.
BuildStart(s) ==
    /\ bt[s].st = "start"
    /\ LET t == bt[s]
           rows == Field(t.m, t.loc).rows
           q == rowPtr(rows, t.loc, t.idx)
           to == ReadAt(t.loc, TblAdd(rows, n_map(t.idx)))
       IN  /\ bt' = [bt EXCEPT ![s] = [t EXCEPT !.st = "append", !.ptr = q,
                                         !.loc = to, !.prior = Ents(q),
                                         !.moves = t.moves + Hop(t.loc, to)]]
           /\ fault' = (fault \/ ~InTable(TblAdd(rows, n_map(t.idx))))
    /\ UNCHANGED <<N, P, honor, anyIdx, freed, pc, cur, k, mloc, mhome, mtrail, ctl,
                   store, at, site, mid>>

\* rowPtr->push_back(e) on the container at q.
PushBack_front(row, e) == [row EXCEPT !.ents = <<e>> \o row.ents]
PushBack(row, e) == [row EXCEPT !.ents = Append(row.ents, e)]

\* One iteration of build's loop: *it is read on the nodelet that holds
\* tmpRow, the push_back runs on the nodelet that holds the container.
BuildAppend(s) ==
    /\ bt[s].st = "append"
    /\ LET t == bt[s]
           q == t.ptr
           tmp == TmpRow(t.idx)
           to == ReadAt(t.start, q)
           last == t.it + 1 >= Len(tmp)
       IN  /\ bt' = [bt EXCEPT ![s] =
                       [t EXCEPT !.it = t.it + 1, !.loc = to,
                                 !.st = IF last THEN "done" ELSE "append",
                                 !.moves = t.moves + Hop(t.loc, t.start)
                                                   + Hop(t.start, to)]]
           /\ IF Built(q)
              THEN /\ store' = [store EXCEPT ![q.m].cell[q.p][q.s] =
                                   PushBack(store[q.m].cell[q.p][q.s], tmp[t.it + 1])]
                   /\ fault' = fault
              ELSE /\ store' = store
                   /\ fault' = TRUE
    /\ UNCHANGED <<N, P, honor, anyIdx, freed, pc, cur, k, mloc, mhome, mtrail, ctl, at,
                   site, mid>>

\* cilk_sync of main.
BuildJoined == \A s \in Sites : bt[s].st = "done"
SyncBuild ==
    /\ pc = "bsync"
    /\ BuildJoined
    /\ pc' = "done"
    /\ UNCHANGED <<N, P, honor, anyIdx, freed, cur, k, mloc, mhome, mtrail, ctl, store,
                   at, bt, site, mid, fault>>

\* delete M: Matrix_t declares no destructor, so nothing runs before
\* repl_new::operator delete, which hands the replicated block to mw_free.
\* The row storage rows_ points to is not touched.
Delete(m) ==
    /\ pc = "done"
    /\ m \notin freed
    /\ freed' = freed \cup {m}
    /\ UNCHANGED <<N, P, honor, anyIdx, pc, cur, k, mloc, mhome, mtrail, ctl,
                   store, at, bt, site, mid, fault>>

Next ==
    \/ New
    \/ Ctor
    \/ Repl
    \/ HintAlloc
    \/ SpawnAlloc
    \/ \E i \in Nodelets : AllocStep(i)
    \/ SyncCreate
    \/ HintBuild
    \/ SpawnBuild
    \/ MidSync
    \/ \E s \in Sites : BuildStart(s)
    \/ \E s \in Sites : BuildAppend(s)
    \/ SyncBuild
    \/ \E m \in Mats : Delete(m)

Spec == Init /\ [][Next]_vars

\* The same program with row indices outside [0,N) handed to build as well.
InitAnyIndex == InitWith({TRUE}, FALSE)
SpecAnyIndex == InitAnyIndex /\ [][Next]_vars

\* The same program with the creating thread starting on any nodelet, on
\* up to MaxP - 1 nodelets.
InitAnyStart == InitOf(1 .. MaxN, 1 .. (MaxP - 1), {FALSE}, TRUE)
SpecAnyStart == InitAnyStart /\ [][Next]_vars

\* main as written: nrows = 16 on the 8 nodelets its comments describe.
MainRows == 16
MainNodelets == 8
InitMain == InitOf({MainRows}, {MainNodelets}, {FALSE}, FALSE)
SpecMain == InitMain /\ [][Next]_vars

----------------------------------------------------------------------------
\* Matrices whose create has returned, and the state in which create returns.
Returned(m) == \E i \in 1 .. Len(MatSeq) : MatSeq[i] = m /\ i < cur
AtReturn ==
    \/ pc = "new" /\ cur > 1
    \/ pc = "bhint" /\ site = 1 /\ bt[1].st = "idle"
LastMat == MatSeq[cur - 1]

\* C1: create does not return before every allocateRows task it spawned has
\* completed: in the state where create returns, all P tasks are done and
\* every slot (p, s), p in [0,P), s in [0, nrows_per_nodelet_), is a
\* default-constructed, empty row.
C1_CreateJoinsAllocation ==
    AtReturn =>
        /\ \A i \in Nodelets : at[i].st = "done"
        /\ \A p \in Nodelets :
               \A s \in 0 .. (ctl[LastMat][p].per - 1) :
                   /\ InStore(RowPtr(LastMat, p, s))
                   /\ store[LastMat].cell[p][s] = EmptyRow
C1_Witness ==
    /\ AtReturn
    /\ P >= 2
    /\ store[LastMat].per >= 2
    /\ \A i \in Nodelets : at[i].st = "done" /\ at[i].row = store[LastMat].per

\* C2: after create(N) returns, the copies of the control block on all
\* nodelets agree on all three fields, and the row count field is N.
C2_CopiesIdentical ==
    \A m \in Mats :
        Returned(m) =>
            \A p \in Nodelets, q \in Nodelets :
                /\ ctl[m][p].nrows = ctl[m][q].nrows
                /\ ctl[m][p].per = ctl[m][q].per
                /\ ctl[m][p].rows = ctl[m][q].rows
                /\ ctl[m][p].nrows = N
C2_Witness ==
    /\ Returned("B")
    /\ P >= 3
    /\ ctl["B"][P - 1] = Block(N, store["B"].per, TblPtr("B", 0))

----------------------------------------------------------------------------
\* Row i of matrix m as the specification places it: slot i div P of
\* nodelet i mod P.  A row outside the storage reads as the marker NoRow.
NoRow == << <<-1, -1>> >>
Home(i) == i % P
Slot(i) == i \div P
RowOf(m, i) ==
    IF InStore(RowPtr(m, Home(i), Slot(i)))
    THEN store[m].cell[Home(i)][Slot(i)].ents
    ELSE NoRow
PatternLen(i) == IF i % 2 = 0 THEN 8 ELSE 7

\* C3: the step that completes build(i), i in [0,N), leaves row i equal to
\* its content at the start of the build followed by the pattern's entries in
\* order (8 for an even i, 7 for an odd i): nothing dropped, merged or
\* reordered, on an empty row and on a row built before.
C3_BuildAppendsPattern ==
    [][\A s \in Sites :
           (bt[s].st = "append" /\ bt'[s].st = "done") =>
               /\ RowOf(bt[s].m, bt[s].idx)' = bt[s].prior \o TmpRow(bt[s].idx)
               /\ Len(RowOf(bt[s].m, bt[s].idx)') =
                      Len(bt[s].prior) + PatternLen(bt[s].idx)
               /\ bt[s].prior = << >> =>
                      RowOf(bt[s].m, bt[s].idx)' = TmpRow(bt[s].idx)]_vars
C3_Witness ==
    /\ bt[1].st = "done"
    /\ bt[2].st = "done"
    /\ bt[2].m = bt[1].m
    /\ bt[2].idx = bt[1].idx
    /\ bt[1].prior = << >>
    /\ bt[2].prior = TmpRow(bt[1].idx)
    /\ RowOf(bt[2].m, bt[2].idx) = TmpRow(bt[1].idx) \o TmpRow(bt[1].idx)

----------------------------------------------------------------------------
\* The storage and the control blocks as create leaves them.
Created ==
    [m \in Mats |->
        [per |-> RowsPerNodelet(N),
         cell |-> [p \in Nodelets |->
                      [s \in 0 .. (RowsPerNodelet(N) - 1) |-> EmptyRow]]]]
CreatedCtl ==
    [m \in Mats |->
        [p \in Nodelets |-> Block(N, RowsPerNodelet(N), TblPtr(m, 0))]]

\* build(i) on matrix m run alone from entry to return.
BuildSeq(st, m, i) ==
    IF n_map(i) \in Nodelets /\ r_map(i) \in 0 .. (st[m].per - 1)
    THEN [st EXCEPT ![m].cell[n_map(i)][r_map(i)].ents = @ \o TmpRow(i)]
    ELSE st
BuildSite(st, s) == BuildSeq(st, bt[s].m, bt[s].idx)

\* The first n entries of i's pattern appended to row i of m, the row placed
\* as the specification places it.
Partial(st, m, i, n) ==
    IF Home(i) \in Nodelets /\ Slot(i) \in 0 .. (st[m].per - 1)
    THEN [st EXCEPT ![m].cell[Home(i)][Slot(i)].ents =
                        @ \o SubSeq(TmpRow(i), 1, n)]
    ELSE st
PartialSite(st, s) == Partial(st, bt[s].m, bt[s].idx, bt[s].it)

\* Both builds spawned with no join between them.
Unjoined == ~mid /\ bt[1].st # "idle" /\ bt[2].st # "idle"

\* C4: two builds spawned without a join between them on rows i, j with
\* home(i) # home(j): however their appends interleave, every row holds at
\* every moment only the entries its own build has pushed so far, and after
\* the join the storage is the one build(i); build(j) run sequentially leaves
\* and the one build(j); build(i) leaves.
C4_ConcurrentAsSequential ==
    (Unjoined /\ Home(bt[1].idx) # Home(bt[2].idx)) =>
        /\ store = PartialSite(PartialSite(Created, 1), 2)
        /\ pc = "done" =>
               /\ store = BuildSite(BuildSite(Created, 1), 2)
               /\ store = BuildSite(BuildSite(Created, 2), 1)
C4_Witness ==
    /\ pc = "done"
    /\ Unjoined
    /\ bt[1].m = bt[2].m
    /\ Home(bt[1].idx) # Home(bt[2].idx)
    /\ RowOf(bt[1].m, bt[1].idx) = TmpRow(bt[1].idx)
    /\ RowOf(bt[2].m, bt[2].idx) = TmpRow(bt[2].idx)
    /\ TmpRow(bt[1].idx) # TmpRow(bt[2].idx)

\* C5: the result does not depend on whether hints are honored: after the
\* final join the storage is what the builds leave when run one after the
\* other in spawn order, every copy of every control block is as create
\* wrote it, and no access left the allocations, with honor TRUE and with
\* honor FALSE alike.
C5_HintsDoNotChangeResult ==
    pc = "done" =>
        /\ store = BuildSite(BuildSite(Created, 1), 2)
        /\ ctl = CreatedCtl
        /\ ~fault
C5_Witness ==
    /\ pc = "done"
    /\ ~honor
    /\ \E s \in Sites :
           /\ bt[s].start # Home(bt[s].idx)
           /\ bt[s].moves > 0
           /\ RowOf(bt[s].m, bt[s].idx) # << >>

----------------------------------------------------------------------------
\* The build tasks that have computed rowPtr.
Placed(s) == bt[s].st \in {"append", "done"}

\* C6: placement is collision-free: two different row indices of [0,N)
\* never get the same (n_map, r_map) pair, each pair is (i mod P, i div P),
\* and two builds of different rows of one matrix never hold the same rowPtr.
C6_PlacementCollisionFree ==
    /\ \A i \in 0 .. (N - 1), j \in 0 .. (N - 1) :
           /\ <<n_map(i), r_map(i)>> = <<i % P, i \div P>>
           /\ i # j => <<n_map(i), r_map(i)>> # <<n_map(j), r_map(j)>>
    /\ (Placed(1) /\ Placed(2) /\ bt[1].m = bt[2].m /\ bt[1].idx # bt[2].idx)
           => bt[1].ptr # bt[2].ptr
C6_Witness ==
    /\ Placed(1)
    /\ Placed(2)
    /\ ~mid
    /\ bt[1].m = bt[2].m
    /\ bt[1].idx # bt[2].idx
    /\ bt[1].ptr.p = bt[2].ptr.p
    /\ bt[1].ptr.s # bt[2].ptr.s

\* C7: every row access stays inside constructed storage: once create has
\* returned, r_map(i) of every i in [0,N) is below the capacity in every copy
\* of the control block and below the number of containers allocated per
\* nodelet, the container of row i is constructed, and every build task
\* holds a rowPtr to a constructed container of the storage.
C7_AccessInsideStorage ==
    /\ \A m \in Mats :
           Returned(m) =>
               \A i \in 0 .. (N - 1) :
                   /\ n_map(i) \in Nodelets
                   /\ r_map(i) >= 0
                   /\ \A p \in Nodelets : r_map(i) < ctl[m][p].per
                   /\ r_map(i) < store[m].per
                   /\ Built(RowPtr(m, n_map(i), r_map(i)))
    /\ \A s \in Sites : Placed(s) => Built(bt[s].ptr)
    /\ ~fault
C7_Witness ==
    \E s \in Sites :
        /\ Placed(s)
        /\ bt[s].idx = N - 1
        /\ bt[s].ptr.s = store[bt[s].m].per - 1
        /\ bt[s].ptr.s >= 1
        /\ bt[s].it >= 1

\* ceil(n / P)
Ceil(n) == (n + P - 1) \div P

\* C8 (as claimed): the capacity create stores in the control block, and the
\* number of containers it constructs on each nodelet, is ceil(N / P).
C8_CapacityIsCeil ==
    \A m \in Mats :
        Returned(m) =>
            \A p \in Nodelets :
                /\ ctl[m][p].per = Ceil(N)
                /\ Cardinality({s \in 0 .. (store[m].per - 1) :
                                   Built(RowPtr(m, p, s))}) = Ceil(N)

----------------------------------------------------------------------------
\* The build tasks whose hint address nodelet_addr has been computed.
Addressed(s) == bt[s].st # "idle"

\* C9 (as claimed): nodelet_addr(i) is the location of row i's own container,
\* the location build(i) appends to.
C9_AddressIsRowContainer ==
    \A s \in Sites : Placed(s) => bt[s].hint = bt[s].ptr

\* C9 (amended): for i in [0,N), nodelet_addr(i) is rows_ + (i mod P), entry
\* i mod P of the base-pointer table: an address on nodelet i mod P, the
\* nodelet that holds row i's container rows_[i mod P] + (i div P), and not
\* the container's address.  Computing it reads no table entry: with hints
\* not honored the caller is still on its own nodelet afterwards.
C9_AddressIsTableEntry ==
    /\ \A s \in Sites :
           Addressed(s) =>
               /\ bt[s].hint = TblPtr(bt[s].m, Home(bt[s].idx))
               /\ InTable(bt[s].hint)
               /\ Owner(bt[s].hint) = Home(bt[s].idx)
               /\ Placed(s) =>
                      /\ bt[s].ptr = RowPtr(bt[s].m, Home(bt[s].idx), Slot(bt[s].idx))
                      /\ Owner(bt[s].ptr) = Owner(bt[s].hint)
                      /\ bt[s].ptr # bt[s].hint
    /\ (pc = "bspawn" /\ ~honor) => mloc = mhome /\ mtrail = <<mhome>>
C9_Witness ==
    \E s \in Sites :
        /\ Placed(s)
        /\ bt[s].hint.kind = "tbl"
        /\ bt[s].ptr.kind = "row"
        /\ bt[s].ptr.s >= 1
        /\ bt[s].ptr.p = bt[s].hint.p

\* C10 (as claimed): a row index outside [0,N) handed to nodelet_addr or
\* build is rejected: no address outside the allocations is formed for it,
\* it makes build push nothing, and no access leaves the allocations.
Invalid(i) == i \notin 0 .. (N - 1)
C10_InvalidIndexRejected ==
    /\ \A s \in Sites :
           (Addressed(s) /\ Invalid(bt[s].idx)) =>
               /\ Owned(bt[s].hint)
               /\ bt[s].ptr = NullPtr
               /\ bt[s].it = 0
    /\ ~fault

----------------------------------------------------------------------------
\* C11 (as claimed): destroying a collection releases its row storage
\* together with its control-block copies: there is no state in which the
\* control block of a matrix is released while its row storage is allocated.
C11_ReleasedTogether ==
    \A m \in freed : store[m].per < 0

----------------------------------------------------------------------------
\* Rows of m, among the N logical rows, that hold no entry.
EmptyRows(m) == {i \in 0 .. (N - 1) : RowOf(m, i) = << >>}
\* The run of main: row 2 built at the first site, row 13 at the second.
MainRun == pc = "done" /\ bt[1].idx = 2 /\ bt[2].idx = 13

\* C12 (as claimed): with N = 16 and P = 8, after rows 2 and 13 are built
\* and joined, the capacity is 2, row 2 is slot 0 of nodelet 2 and holds the
\* even pattern, row 13 is slot 1 of nodelet 5 and holds the odd pattern, and
\* the other 14 rows of the collection are empty.
C12_FourteenOthersEmpty ==
    MainRun =>
        /\ store[bt[1].m].per = 2
        /\ store[bt[1].m].cell[2][0].ents = PatternEven
        /\ store[bt[2].m].cell[5][1].ents = PatternOdd
        /\ Cardinality(EmptyRows(bt[1].m)) = 14
        /\ Cardinality(EmptyRows(bt[2].m)) = 14

\* C12 (amended): with N = 16 and P = 8 the capacity is 2; row 2 is slot 0 of
\* nodelet 2 and row 13 is slot 1 of nodelet 5; after main has built row 2 in
\* one matrix and row 13 in a matrix and joined, the first holds exactly the
\* even pattern and the second exactly the odd pattern, and every other
\* container of both matrices is empty: 15 other rows in each matrix when the
\* two builds are on different matrices, as in main (row 2 of A, row 13 of B),
\* 14 when they are on the same matrix.
C12_MainScenario ==
    /\ <<n_map(2), r_map(2)>> = <<2, 0>>
    /\ <<n_map(13), r_map(13)>> = <<5, 1>>
    /\ \A m \in Mats :
           Returned(m) =>
               /\ store[m].per = 2
               /\ \A p \in Nodelets : ctl[m][p].per = 2
    /\ MainRun =>
           /\ bt[1].ptr = RowPtr(bt[1].m, 2, 0)
           /\ bt[2].ptr = RowPtr(bt[2].m, 5, 1)
           /\ store[bt[1].m].cell[2][0].ents = PatternEven
           /\ store[bt[2].m].cell[5][1].ents = PatternOdd
           /\ \A m \in Mats, p \in Nodelets, s \in 0 .. 1 :
                  (RowPtr(m, p, s) \notin {bt[1].ptr, bt[2].ptr})
                      => store[m].cell[p][s] = EmptyRow
           /\ \A m \in {bt[1].m, bt[2].m} :
                  Cardinality(EmptyRows(m)) = IF bt[1].m = bt[2].m THEN 14 ELSE 15
C12_Witness ==
    /\ MainRun
    /\ ~mid
    /\ bt[1].m = "A"
    /\ bt[2].m = "B"
    /\ RowOf("A", 2) = PatternEven
    /\ RowOf("B", 13) = PatternOdd
    /\ Cardinality(EmptyRows("A")) = 15
    /\ Cardinality(EmptyRows("B")) = 15

----------------------------------------------------------------------------
\* The matrix whose constructor is past its replication loop, if any.
Spawning == pc \in {"hint", "spawn", "sync"}
Replicated(m) == Returned(m) \/ (Spawning /\ Mat = m)

\* C13: once the constructor has replicated the control block of a matrix,
\* no step (of allocateRows, of build, of nodelet_addr, of main) changes any
\* field of any of its copies, and the copies are pairwise identical.
C13_ControlBlockFrozen ==
    [][\A m \in Mats :
           Replicated(m) =>
               /\ ctl'[m] = ctl[m]
               /\ \A p \in Nodelets, q \in Nodelets : ctl[m][p] = ctl[m][q]]_vars
C13_Witness ==
    /\ P >= 2
    /\ Replicated("A")
    /\ Replicated("B")
    /\ \E s \in Sites : bt[s].st = "append" /\ bt[s].it >= 1
    /\ \A m \in Mats : ctl[m][0] = ctl[m][P - 1]

\* The container of row i of matrix m as the specification places it.
CellOf(m, i) == RowPtr(m, Home(i), Slot(i))

\* C14: every step of build(i) on a matrix leaves every container other
\* than row i's unchanged: the other rows of that matrix and all rows of the
\* other matrix, at each intermediate step and not only at the end.
C14_BuildTouchesOnlyItsRow ==
    [][\A s \in Sites :
           (bt[s].st \in {"start", "append"} /\ bt'[s] # bt[s]) =>
               \A m \in Mats, p \in Nodelets :
                   \A c \in 0 .. (store[m].per - 1) :
                       RowPtr(m, p, c) # CellOf(bt[s].m, bt[s].idx)
                           => store'[m].cell[p][c] = store[m].cell[p][c]]_vars
C14_Witness ==
    /\ bt[1].st = "append"
    /\ bt[2].st = "append"
    /\ bt[1].it >= 2
    /\ bt[2].it >= 2
    /\ bt[1].m = bt[2].m
    /\ RowOf(bt[1].m, bt[1].idx) = SubSeq(TmpRow(bt[1].idx), 1, bt[1].it)
    /\ RowOf(bt[2].m, bt[2].idx) = SubSeq(TmpRow(bt[2].idx), 1, bt[2].it)

\* The build tasks that have been spawned.
Spawned(s) == bt[s].st \in {"start", "append", "done"}

\* C15: with hints honored, the address hinted for build(i) is on nodelet
\* i mod P, the build task starts there, and it is there with no migration
\* made at every point up to and including its last push_back.
C15_HintedBuildStaysHome ==
    honor =>
        \A s \in Sites :
            Spawned(s) =>
                /\ Owned(bt[s].hint)
                /\ Owner(bt[s].hint) = Home(bt[s].idx)
                /\ bt[s].start = Home(bt[s].idx)
                /\ bt[s].loc = Home(bt[s].idx)
                /\ bt[s].moves = 0
C15_Witness ==
    /\ honor
    /\ \E s \in Sites :
           /\ bt[s].st = "done"
           /\ bt[s].it = Len(TmpRow(bt[s].idx))
           /\ Home(bt[s].idx) >= 1
           /\ bt[s].start = Home(bt[s].idx)
           /\ bt[s].moves = 0

\* C16: the constructor spawns one allocateRows task per nodelet, task i not
\* spawned before and, with hints honored, started on nodelet i; each
\* iteration of task i constructs one container of nodelet i that was raw
\* memory and changes no other container; at the join every task has
\* constructed all nrows_per_nodelet_ containers of its nodelet; and after
\* create has returned no container is constructed again (it stays
\* constructed and its entries only grow).
C16_EachSlotConstructedOnce ==
    [][/\ (pc = "spawn" /\ pc' # "spawn") =>
              /\ at[k].st = "idle"
              /\ at'[k].st = "run"
              /\ honor => at'[k].loc = k
              /\ \A i \in Nodelets \ {k} : at'[i] = at[i]
       /\ \A i \in Nodelets :
              (at[i].st = "run" /\ at'[i].row = at[i].row + 1) =>
                  /\ InStore(RowPtr(Mat, i, at[i].row))
                  /\ store[Mat].cell[i][at[i].row] = RawRow
                  /\ store'[Mat].cell[i][at[i].row] = EmptyRow
                  /\ \A m \in Mats, p \in Nodelets :
                         \A c \in 0 .. (store[m].per - 1) :
                             <<m, p, c>> # <<Mat, i, at[i].row>>
                                 => store'[m].cell[p][c] = store[m].cell[p][c]
       /\ (pc = "sync" /\ pc' # "sync") =>
              \A i \in Nodelets :
                  /\ at[i].row = ctl[Mat][i].per
                  /\ \A c \in 0 .. (at[i].row - 1) : Built(RowPtr(Mat, i, c))
       /\ \A m \in Mats :
              Returned(m) =>
                  \A p \in Nodelets :
                      \A c \in 0 .. (store[m].per - 1) :
                          /\ store'[m].cell[p][c].built
                          /\ Len(store'[m].cell[p][c].ents)
                                 >= Len(store[m].cell[p][c].ents)]_vars
C16_Witness ==
    /\ AtReturn
    /\ honor
    /\ P >= 2
    /\ store[LastMat].per >= 2
    /\ \A i \in Nodelets :
           /\ at[i].st = "done"
           /\ at[i].loc = i
           /\ at[i].moves = 0
           /\ at[i].row = store[LastMat].per
           /\ \A c \in 0 .. (at[i].row - 1) : store[LastMat].cell[i][c] = EmptyRow

\* <<0, 1, 0, 2, 0, ..., P - 1, 0>>
RoundTrips == [j \in 1 .. (2 * P - 1) |-> IF j % 2 = 1 THEN 0 ELSE j \div 2]

\* C17: with hints honored and the creating thread started on nodelet 0,
\* the thread is on nodelet 0 at every hint, on nodelet i when it spawns
\* allocateRows(i), and when create returns it is on nodelet 0 having
\* visited 0, 1, 0, 2, 0, ..., P - 1, 0: one migration to each nodelet
\* 1 .. P - 1 and one back from each.
C17_CreatorRoundTrips ==
    honor =>
        /\ pc = "hint" => mloc = 0
        /\ pc = "spawn" => mloc = k /\ at[k].st = "idle"
        /\ AtReturn =>
               /\ mloc = 0
               /\ mtrail = RoundTrips
               /\ \A i \in Nodelets : at[i].st = "done"
C17_Witness ==
    /\ honor
    /\ AtReturn
    /\ P >= 3
    /\ mloc = 0
    /\ Len(mtrail) = 2 * P - 1
    /\ mtrail[2] = 1
    /\ mtrail[4] = 2

\* C18: when the constructor starts hinting and spawning, every copy of the
\* control block already holds the initialized fields, so the copy a task
\* allocateRows(i) reads, on nodelet i or on the nodelet it is on, is
\* initialized, and no task leaves the allocations.
C18_ReplicationBeforeSpawn ==
    Spawning =>
        /\ \A p \in Nodelets : ctl[Mat][p] = CreatedCtl[Mat][p]
        /\ \A i \in Nodelets :
               at[i].st # "idle" =>
                   /\ Field(Mat, i) = CreatedCtl[Mat][i]
                   /\ Field(Mat, at[i].loc).per = RowsPerNodelet(N)
                   /\ Field(Mat, at[i].loc).rows = TblPtr(Mat, 0)
        /\ ~fault
C18_Witness ==
    /\ pc = "spawn"
    /\ P >= 2
    /\ k = P - 1
    /\ at[0].st = "run"
    /\ at[0].row >= 1
    /\ ctl[Mat][k] = CreatedCtl[Mat][k]

\* C19 (as claimed): whatever nodelet the creating thread is on, after create
\* returns every copy of the control block holds the row count N, the
\* computed capacity and the storage base pointer.
C19_CorrectFromAnyStart ==
    \A m \in Mats :
        Returned(m) =>
            \A p \in Nodelets : ctl[m][p] = CreatedCtl[m][p]

====
